---- MODULE Spec2Model ----
(***************************************************************************)
(* Model of the Metrics Engine of the grain distribution dashboard         *)
(* (src/app.py).  The script is re-run from top to bottom on every filter  *)
(* change; the workbook tables are loaded once and are read-only.  The     *)
(* model follows the script section by section: the feasibility loop,      *)
(* the aggregation views, the sidebar filters and quick totals, the        *)
(* per-shop projection and the KPI rollup.  An uncaught Python exception   *)
(* ends the run (pc = "error", error = the exception's class).             *)
(*                                                                         *)
(* Quantities are whole tons, so the script's float arithmetic is exact;   *)
(* a quotient that the script only formats is kept as a fraction           *)
(* [num, den].  A missing cell (NaN), an empty query result and None are   *)
(* the empty set; a present value v is {v}.  Chart, table and export       *)
(* widget calls (st.*, to_excel) are presentation and are not modelled:    *)
(* each is taken to return, the export of line 168 included.               *)
(***************************************************************************)
EXTENDS Integers, Sequences, FiniteSets, TLC

\* ---------------------------------------------------------------- bounds
MaxDays   == 3     \* largest Distribution_Days drawn
MaxCgRecs == 2     \* most CG->LG dispatch records drawn
MaxLgRecs == 2     \* most LG->FPS dispatch records drawn

LgIds      == {"L1", "L2"}
FpsIds     == {"F1", "F2"}
VehicleIds == {"V1", "V2"}
Quantities == {0, 2, 3}      \* Quantity_tons of a dispatch record
StockTons  == {0, 5}         \* Stock_Level_tons of a snapshot
Thresholds == {0, 5}         \* Reorder_Threshold_tons of a shop

VARIABLES
  settings,       \* sheet Settings: Parameter -> Value
  dispatch_cg,    \* sheet CG_to_LG_Dispatch: sequence of rows
  dispatch_lg,    \* sheet LG_to_FPS_Dispatch: sequence of rows
  stock_levels,   \* sheet Stock_Levels: set of rows, one per entity and day
  lgs,            \* sheet LGs: LG_ID -> Storage_Capacity_tons
  fps,            \* sheet FPS: FPS_ID -> Reorder_Threshold_tons
  pc,             \* the script section to run next
  error,          \* class of the exception that ended the run, or "none"
  X,              \* pre-dispatch offset
  day_totals_cg,  \* Day -> summed CG->LG quantity
  day_totals_lg,  \* Day -> summed LG->FPS quantity
  veh_usage,      \* Day -> Trips_Used
  lg_stock,       \* Day -> (LG id -> cell)
  fps_stock,      \* set of merged FPS snapshot rows with At_Risk
  total_plan,
  day_range,      \* <<low, high>> of the slider
  selected_lgs,
  cg_sel,
  lg_sel,
  end_day,
  fps_data,       \* FPS_ID -> row of the per-shop projection
  kpi             \* the values of the KPI rollup

inputs == <<settings, dispatch_cg, dispatch_lg, stock_levels, lgs, fps>>
views  == <<day_totals_cg, day_totals_lg, veh_usage, lg_stock, fps_stock, total_plan>>
filter == <<day_range, selected_lgs, cg_sel, lg_sel>>
vars   == <<inputs, pc, error, X, views, filter, end_day, fps_data, kpi>>

\* --------------------------------------------------------------- helpers
RECURSIVE SumQty(_)
SumQty(rows) ==
  IF rows = << >> THEN 0 ELSE Head(rows).Quantity_tons + SumQty(Tail(rows))

RECURSIVE SumOver(_, _)
SumOver(f, S) ==
  IF S = {} THEN 0
  ELSE LET k == CHOOSE k \in S : TRUE IN f[k] + SumOver(f, S \ {k})

RECURSIVE SumSet(_)
SumSet(S) ==
  IF S = {} THEN 0
  ELSE LET v == CHOOSE v \in S : TRUE IN v + SumSet(S \ {v})

Min(S) == CHOOSE m \in S : \A n \in S : m <= n
Max(S) == CHOOSE m \in S : \A n \in S : m >= n

MaxOfSeq(s) == Max({s[i] : i \in DOMAIN s})

Floor(n, m) == n \div m
Ceil(n, m) == -((-n) \div m)

\* ------------------------------------------------------------- settings
DAYS      == settings.Distribution_Days
TRUCK_CAP == settings.Vehicle_Capacity_tons
MAX_TRIPS == settings.Vehicles_Total * settings.Max_Trips_Per_Vehicle_Per_Day
DAILY_CAP == MAX_TRIPS * TRUCK_CAP

\* ------------------------------------------------- feasibility (40-51)
daily_total_cg ==
  [d \in {dispatch_cg[i].Dispatch_Day : i \in DOMAIN dispatch_cg} |->
     SumQty(SelectSeq(dispatch_cg, LAMBDA r : r.Dispatch_Day = d))]

Get(series, d) == IF d \in DOMAIN series THEN series[d] ELSE 0

AdvanceFloor(cum_need, d) ==
  IF cum_need - DAILY_CAP * d > 0
    THEN Floor(cum_need - DAILY_CAP * d, DAILY_CAP) ELSE 0

\* over = (cum_need - DAILY_CAP*d) / DAILY_CAP; ceil(over) if over > 0 else 0
Advance(cum_need, d) ==
  IF cum_need - DAILY_CAP * d > 0
    THEN Ceil(cum_need - DAILY_CAP * d, DAILY_CAP) ELSE 0

\* With DAILY_CAP = 0.0 the quotient is a Python float division while
\* cum_need is still the int 0 (ZeroDivisionError); once a day's total has
\* been read from the series cum_need is a numpy scalar, whose division
\* yields inf (math.ceil raises OverflowError) or nan (nan > 0 is false).
RECURSIVE FeasLoop(_, _, _, _)
FeasLoop(d, cum_need, numpy, adv) ==
  IF d > DAYS THEN [error |-> "none", adv |-> adv]
  ELSE LET cum == cum_need + Get(daily_total_cg, d)
           np  == numpy \/ d \in DOMAIN daily_total_cg
       IN  IF DAILY_CAP = 0
             THEN IF ~np THEN [error |-> "ZeroDivisionError", adv |-> adv]
                  ELSE IF cum > 0 THEN [error |-> "OverflowError", adv |-> adv]
                  ELSE FeasLoop(d + 1, cum, np, Append(adv, 0))
             ELSE FeasLoop(d + 1, cum, np, Append(adv, Advance(cum, d)))

MIN_DAY == 1 - X
MAX_DAY == DAYS

\* ------------------------------------------------ aggregation views (53-85)
DayTotalsLg ==
  [d \in {dispatch_lg[i].Day : i \in DOMAIN dispatch_lg} |->
     SumQty(SelectSeq(dispatch_lg, LAMBDA r : r.Day = d))]

VehUsage ==
  [d \in {dispatch_lg[i].Day : i \in DOMAIN dispatch_lg} |->
     Cardinality({dispatch_lg[i].Vehicle_ID :
                    i \in {j \in DOMAIN dispatch_lg : dispatch_lg[j].Day = d}})]

LgRows  == {r \in stock_levels : r.Entity_Type = "LG"}
FpsRows == {r \in stock_levels : r.Entity_Type = "FPS"}

\* pivot(index="Day", columns="Entity_ID", values="Stock_Level_tons")
Pivot ==
  [d \in {r.Day : r \in LgRows} |->
     [c \in {r.Entity_ID : r \in LgRows} |->
        {r.Stock_Level_tons : r \in {q \in LgRows : q.Day = d /\ q.Entity_ID = c}}]]

Columns(table) == UNION {DOMAIN table[d] : d \in DOMAIN table}

RECURSIVE BfillCell(_, _, _)
BfillCell(table, d, c) ==
  IF table[d][c] # {} THEN table[d][c]
  ELSE LET later == {e \in DOMAIN table : e > d}
       IN  IF later = {} THEN {} ELSE BfillCell(table, Min(later), c)

\* fillna(method="ffill"): down each column, a missing cell takes the value
\* of the row above it, after that row has been filled
RECURSIVE FfillCell(_, _, _)
FfillCell(table, d, c) ==
  IF table[d][c] # {} THEN table[d][c]
  ELSE LET earlier == {e \in DOMAIN table : e < d}
       IN  IF earlier = {} THEN {} ELSE FfillCell(table, Max(earlier), c)

Ffill(table) ==
  [d \in DOMAIN table |-> [c \in DOMAIN table[d] |-> FfillCell(table, d, c)]]

AtRiskStrict(stock, threshold) == stock < threshold

AtRisk(stock, threshold) == stock <= threshold

\* inner merge of the FPS snapshots with fps[["FPS_ID","Reorder_Threshold_tons"]]
FpsStock ==
  {[Day |-> r.Day, FPS_ID |-> r.Entity_ID,
    Stock_Level_tons |-> r.Stock_Level_tons,
    Reorder_Threshold_tons |-> fps[r.Entity_ID],
    At_Risk |-> AtRisk(r.Stock_Level_tons, fps[r.Entity_ID])] :
     r \in {q \in FpsRows : q.Entity_ID \in DOMAIN fps}}

\* ------------------------------------------------- sidebar filters (94-109)
DayRanges ==
  {r \in (MIN_DAY..MAX_DAY) \X (MIN_DAY..MAX_DAY) : r[1] <= r[2]}

\* day_totals_cg.query("Day>=@day_range[0] & Day<=@day_range[1]").sum()
CgSel(range) ==
  SumOver(day_totals_cg,
          {d \in DOMAIN day_totals_cg : d >= range[1] /\ d <= range[2]})

\* day_totals_lg.query("Day>=1 & Day<=@day_range[1]").sum()
LgSel(range) ==
  SumOver(day_totals_lg, {d \in DOMAIN day_totals_lg : d >= 1 /\ d <= range[2]})

\* ---------------------------------------------- per-shop projection (175-189)
EndDay == Min({day_range[2], DAYS})

StockNow(fps_id, day) ==
  LET rows == {r \in fps_stock : r.FPS_ID = fps_id /\ r.Day = day}
  IN  IF rows # {} THEN (CHOOSE r \in rows : TRUE).Stock_Level_tons ELSE 0

FutureDays(fps_id, day) ==
  {dispatch_lg[i].Day :
     i \in {j \in DOMAIN dispatch_lg :
              dispatch_lg[j].FPS_ID = fps_id /\ dispatch_lg[j].Day > day}}

NextDay(fps_id, day) ==
  IF FutureDays(fps_id, day) # {} THEN {Min(FutureDays(fps_id, day))} ELSE {}

\* (next_day - end_day) if next_day else None: None and 0 are both false
DaysTo(next_day, day) ==
  IF next_day # {} /\ next_day # {0} THEN {n - day : n \in next_day} ELSE {}

FpsData(day) ==
  [f \in DOMAIN fps |->
     [Current_Stock_tons |-> StockNow(f, day),
      Next_Receipt_Day   |-> NextDay(f, day),
      Days_To_Receipt    |-> DaysTo(NextDay(f, day), day)]]

\* ---------------------------------------------------- KPI rollup (221-236)
Frac(n, m) == [num |-> n, den |-> m]

SelDays == day_range[2] - Max({day_range[1], 1}) + 1

AvgDaily(total) == IF SelDays > 0 THEN Frac(total, SelDays) ELSE Frac(0, 1)

\* mean of Trips_Used over Day in 1..day_range[1]; NaN over no rows
AvgTrips ==
  LET days == {d \in DOMAIN veh_usage : d >= 1 /\ d <= day_range[2]}
  IN  IF days = {} THEN {} ELSE {Frac(SumOver(veh_usage, days), Cardinality(days))}

\* lg_stock.loc[end_day, selected_lgs] and lgs.loc[selected_lgs, ...] raise
\* KeyError on a label that is not in the index
KpiRaises ==
  \/ end_day \notin DOMAIN lg_stock
  \/ ~(selected_lgs \subseteq DOMAIN lgs)

RECURSIVE SumCells(_, _)
SumCells(row, cols) ==
  IF cols = {} THEN 0
  ELSE LET c == CHOOSE c \in cols : TRUE
       IN  SumSet(row[c]) + SumCells(row, cols \ {c})

RECURSIVE SumStock(_)
SumStock(rows) ==
  IF rows = {} THEN 0
  ELSE LET r == CHOOSE r \in rows : TRUE
       IN  r.Stock_Level_tons + SumStock(rows \ {r})

\* math.ceil(remaining_t/DAILY_CAP) if DAILY_CAP else None
DaysRem(remaining_t) ==
  IF DAILY_CAP # 0 THEN {Ceil(remaining_t, DAILY_CAP)} ELSE {}

Kpi ==
  LET lg_onhand == SumCells(lg_stock[end_day], selected_lgs)
      lg_caps   == SumOver(lgs, selected_lgs)
      at_end    == {r \in fps_stock : r.Day = end_day}
      dispatched_cum ==
        SumOver(day_totals_lg, {d \in DOMAIN day_totals_lg : d <= end_day})
  IN  [sel_days      |-> SelDays,
       avg_daily_cg  |-> AvgDaily(cg_sel),
       avg_daily_lg  |-> AvgDaily(lg_sel),
       avg_trips     |-> AvgTrips,
       pct_fleet     |-> IF MAX_TRIPS # 0
                           THEN {Frac(t.num * 100, t.den * MAX_TRIPS) : t \in AvgTrips}
                           ELSE {Frac(0, 1)},
       lg_onhand     |-> lg_onhand,
       fps_onhand    |-> SumStock(at_end),
       pct_lg_filled |-> IF lg_caps # 0 THEN Frac(lg_onhand * 100, lg_caps)
                                        ELSE Frac(0, 1),
       fps_zero      |-> Cardinality({r.FPS_ID : r \in {q \in at_end : q.Stock_Level_tons = 0}}),
       fps_risk      |-> Cardinality({r.FPS_ID : r \in {q \in at_end : q.At_Risk}}),
       dispatched_cum |-> dispatched_cum,
       pct_plan      |-> IF total_plan # 0 THEN Frac(dispatched_cum * 100, total_plan)
                                           ELSE Frac(0, 1),
       remaining_t   |-> total_plan - dispatched_cum,
       days_rem      |-> DaysRem(total_plan - dispatched_cum)]

\* ------------------------------------------------------------- the script
Unset == [unset |-> TRUE]

Fresh ==
  /\ pc = "start" /\ error = "none" /\ X = 0
  /\ day_totals_cg = << >> /\ day_totals_lg = << >> /\ veh_usage = << >>
  /\ lg_stock = << >> /\ fps_stock = {} /\ total_plan = 0
  /\ day_range = << >> /\ selected_lgs = {} /\ cg_sel = 0 /\ lg_sel = 0
  /\ end_day = 0 /\ fps_data = << >> /\ kpi = Unset

\* lines 34-51
Feasibility ==
  /\ pc = "start"
  /\ LET r == FeasLoop(1, 0, FALSE, << >>)
     IN  IF r.error # "none"
           THEN /\ pc' = "error" /\ error' = r.error /\ X' = X
           ELSE /\ pc' = "views" /\ error' = error /\ X' = MaxOfSeq(r.adv)
  /\ UNCHANGED <<inputs, views, filter, end_day, fps_data, kpi>>

\* lines 53-85
Aggregate ==
  /\ pc = "views"
  /\ day_totals_cg' = daily_total_cg
  /\ day_totals_lg' = DayTotalsLg
  /\ veh_usage' = VehUsage
  /\ lg_stock' = Ffill(Pivot)
  /\ fps_stock' = FpsStock
  /\ total_plan' = SumQty(dispatch_lg)
  /\ pc' = "sidebar"
  /\ UNCHANGED <<inputs, error, X, filter, end_day, fps_data, kpi>>

\* lines 92-113: the user's slider range and LG checkboxes, then the totals
Sidebar ==
  /\ pc = "sidebar"
  /\ \E range \in DayRanges, sel \in SUBSET Columns(lg_stock) :
       /\ day_range' = range
       /\ selected_lgs' = sel
       /\ cg_sel' = CgSel(range)
       /\ lg_sel' = LgSel(range)
  /\ pc' = "fps_data"
  /\ UNCHANGED <<inputs, error, X, views, end_day, fps_data, kpi>>

\* lines 173-190
ShopProjection ==
  /\ pc = "fps_data"
  /\ end_day' = EndDay
  /\ fps_data' = FpsData(EndDay)
  /\ pc' = "metrics"
  /\ UNCHANGED <<inputs, error, X, views, filter, kpi>>

\* lines 219-252
Metrics ==
  /\ pc = "metrics"
  /\ IF KpiRaises
       THEN /\ pc' = "error" /\ error' = "KeyError" /\ kpi' = kpi
       ELSE /\ pc' = "done" /\ error' = error /\ kpi' = Kpi
  /\ UNCHANGED <<inputs, X, views, filter, end_day, fps_data>>

\* a filter change or a page reload runs the script again on the cached tables
Rerun ==
  /\ pc \in {"done", "error"}
  /\ pc' = "start" /\ error' = "none" /\ X' = 0
  /\ day_totals_cg' = << >> /\ day_totals_lg' = << >> /\ veh_usage' = << >>
  /\ lg_stock' = << >> /\ fps_stock' = {} /\ total_plan' = 0
  /\ day_range' = << >> /\ selected_lgs' = {} /\ cg_sel' = 0 /\ lg_sel' = 0
  /\ end_day' = 0 /\ fps_data' = << >> /\ kpi' = Unset
  /\ UNCHANGED inputs

Next ==
  \/ Feasibility
  \/ Aggregate
  \/ Sidebar
  \/ ShopProjection
  \/ Metrics
  \/ Rerun

\* ---------------------------------------------------------- the workbooks
SeqsUpTo(S, n) == UNION {[1..k -> S] : k \in 0..n}

Fleet(vehicles, trips, capacity) ==
  [Vehicles_Total |-> vehicles, Max_Trips_Per_Vehicle_Per_Day |-> trips,
   Vehicle_Capacity_tons |-> capacity]

Fleets == {Fleet(2, 1, 1), Fleet(1, 1, 3), Fleet(0, 1, 1), Fleet(1, 0, 1), Fleet(1, 1, 0)}

Settings(days, fleet) ==
  [Distribution_Days |-> days,
   Vehicles_Total |-> fleet.Vehicles_Total,
   Max_Trips_Per_Vehicle_Per_Day |-> fleet.Max_Trips_Per_Vehicle_Per_Day,
   Vehicle_Capacity_tons |-> fleet.Vehicle_Capacity_tons]

CgRows == [Dispatch_Day : 1..MaxDays, Quantity_tons : Quantities]

\* LG->FPS rows of one vehicle
LgRowsTo(days, shops) ==
  [Day : days, FPS_ID : shops, Vehicle_ID : {"V1"}, Quantity_tons : Quantities \ {0}]

Snapshot(type, id, day, tons) ==
  [Entity_Type |-> type, Entity_ID |-> id, Day |-> day, Stock_Level_tons |-> tons]

\* the snapshot tables of one entity: on each day no row, or one row with
\* a level from tons
StockTables(type, id, tons) ==
  {UNION {{Snapshot(type, id, d, t) : t \in f[d]} : d \in 1..MaxDays} :
     f \in [1..MaxDays -> {{}} \cup {{t} : t \in tons}]}

BaseSettings == Settings(MaxDays, Fleet(2, 1, 1))
BaseCg == <<[Dispatch_Day |-> 1, Quantity_tons |-> 3]>>
BaseLg ==
  <<[Day |-> 1, FPS_ID |-> "F1", Vehicle_ID |-> "V1", Quantity_tons |-> 3],
    [Day |-> 2, FPS_ID |-> "F2", Vehicle_ID |-> "V2", Quantity_tons |-> 2]>>
BaseLgStock  == {Snapshot("LG", "L1", 1, 5), Snapshot("LG", "L1", MaxDays, 0)}
BaseFpsStock == {Snapshot("FPS", "F1", 1, 5), Snapshot("FPS", "F2", 1, 0)}
BaseLgs == [l \in LgIds |-> 10]
BaseFps == [f \in FpsIds |-> 5]

FullLgStock ==
  {Snapshot("LG", "L1", d, 5) : d \in 1..MaxDays} \cup {Snapshot("LG", "L2", 1, 0)}

\* settings and CG->LG demand vary
InitFeasibility ==
  /\ settings \in {Settings(n, f) : n \in 1..MaxDays, f \in Fleets}
  /\ dispatch_cg \in SeqsUpTo(CgRows, MaxCgRecs)
  /\ dispatch_lg = BaseLg
  /\ stock_levels = BaseLgStock \cup BaseFpsStock
  /\ lgs = BaseLgs /\ fps = BaseFps
  /\ Fresh

\* one of the two dispatch logs varies, on a fleet with capacity
InitTotals ==
  /\ settings \in {Settings(n, f) : n \in 1..MaxDays, f \in {Fleet(2, 1, 1), Fleet(1, 1, 3)}}
  /\ \/ dispatch_cg \in SeqsUpTo(CgRows, MaxCgRecs) /\ dispatch_lg = BaseLg
     \/ dispatch_cg = BaseCg /\ dispatch_lg \in SeqsUpTo(LgRowsTo(1..MaxDays, {"F1"}), MaxLgRecs)
  /\ stock_levels \in {FullLgStock \cup BaseFpsStock, BaseLgStock \cup BaseFpsStock}
  /\ lgs = BaseLgs /\ fps = BaseFps
  /\ Fresh

\* the FPS snapshots, the shop registry and its thresholds vary
InitShops ==
  /\ settings = BaseSettings
  /\ dispatch_cg = BaseCg /\ dispatch_lg = BaseLg
  /\ stock_levels \in {BaseLgStock \cup t1 \cup t2 :
                          t1 \in StockTables("FPS", "F1", StockTons),
                          t2 \in StockTables("FPS", "F2", {5})}
  /\ lgs = BaseLgs
  /\ fps \in [FpsIds -> Thresholds] \cup [{"F1"} -> Thresholds]
  /\ Fresh

\* the LG->FPS log varies, day 0 (a pre-dispatch day) included; the CG->LG
\* demand needs two pre-dispatch days
InitReceipts ==
  /\ settings = BaseSettings
  /\ dispatch_cg = BaseCg \o BaseCg
  /\ dispatch_lg \in SeqsUpTo(LgRowsTo(0..MaxDays, FpsIds), MaxLgRecs)
  /\ stock_levels = BaseLgStock \cup BaseFpsStock
  /\ lgs = BaseLgs /\ fps = BaseFps
  /\ Fresh

\* the LG snapshots vary
InitTimeline ==
  /\ settings = Settings(MaxDays, Fleet(1, 1, 3))
  /\ dispatch_cg = BaseCg /\ dispatch_lg = BaseLg
  /\ stock_levels \in {BaseFpsStock \cup t1 \cup t2 :
                          t1 \in StockTables("LG", "L1", StockTons),
                          t2 \in StockTables("LG", "L2", StockTons)}
  /\ lgs = BaseLgs /\ fps = BaseFps
  /\ Fresh

SpecFeasibility == InitFeasibility /\ [][Next]_vars
SpecTotals      == InitTotals /\ [][Next]_vars
SpecShops       == InitShops /\ [][Next]_vars
SpecReceipts    == InitReceipts /\ [][Next]_vars
SpecTimeline    == InitTimeline /\ [][Next]_vars

\* ------------------------------------------------------------ properties
FeasibilityDone ==
  pc # "start" /\ error \notin {"ZeroDivisionError", "OverflowError"}
ViewsDone == FeasibilityDone /\ pc # "views"
FilterDone == ViewsDone /\ pc # "sidebar"
ProjectionDone == FilterDone /\ pc # "fps_data"

\* the raw dispatch quantities of the days lo..hi
RawCg(lo, hi) ==
  SumQty(SelectSeq(dispatch_cg, LAMBDA r : lo <= r.Dispatch_Day /\ r.Dispatch_Day <= hi))
RawLg(lo, hi) ==
  SumQty(SelectSeq(dispatch_lg, LAMBDA r : lo <= r.Day /\ r.Day <= hi))

WithinCapacity(x) == \A d \in 1..DAYS : RawCg(1, d) <= DAILY_CAP * (d + x)

\* C1: with at least one day and DAILY_CAP > 0, X is the least x >= 0 with
\* cumulative demand through every day d of the horizon <= DAILY_CAP * (d + x),
\* and the slider offers exactly the ranges within [1 - X, horizon].
C1_LeadTimeIsLeast ==
  (FeasibilityDone /\ DAILY_CAP > 0) =>
     /\ X >= 0
     /\ WithinCapacity(X)
     /\ \A x \in 0..(X - 1) : ~WithinCapacity(x)
     /\ FilterDone =>
          /\ 1 - X <= day_range[1] /\ day_range[1] <= day_range[2]
          /\ day_range[2] <= DAYS
     /\ pc = "sidebar" =>
          DayRanges = {r \in ((1 - X)..DAYS) \X ((1 - X)..DAYS) : r[1] <= r[2]}

C1_Witness ==
  /\ pc = "done" /\ DAILY_CAP > 1 /\ X >= 2
  /\ day_range[1] = 1 - X
  /\ \E d \in 1..DAYS : RawCg(1, d) > DAILY_CAP * (d + X - 1)
                        /\ RawCg(1, d) < DAILY_CAP * (d + X)

\* C2: with DAILY_CAP = 0 neither the feasibility loop nor the days-remaining
\* KPI raises; the run goes on to the KPI rollup, which reports days
\* remaining as unavailable.
C2_ZeroCapacityDegrades ==
  DAILY_CAP = 0 =>
     /\ error \notin {"ZeroDivisionError", "OverflowError"}
     /\ pc = "done" => kpi.days_rem = {}

\* C3: days remaining is ceil(remaining / DAILY_CAP) when DAILY_CAP > 0 and the
\* remaining volume (plan total minus dispatched through the end day) is > 0,
\* and is unavailable, never the number 0, when either is zero.
C3_DaysRemaining ==
  pc = "done" =>
     LET remaining ==
           SumQty(dispatch_lg) - SumQty(SelectSeq(dispatch_lg, LAMBDA r : r.Day <= end_day))
     IN  IF DAILY_CAP > 0 /\ remaining > 0
           THEN kpi.days_rem = {Ceil(remaining, DAILY_CAP)}
           ELSE kpi.days_rem = {}

\* C4: for every range and LG subset the sidebar allows, the KPI rollup
\* completes; it never raises.
C4_RollupNeverRaises ==
  FilterDone => ~(pc = "error" /\ error = "KeyError")

\* avg is total / n, and zero over no days
IsAverage(avg, total, n) ==
  IF n > 0 THEN avg.num * n = total * avg.den ELSE avg.num = 0

\* C5: each average-daily KPI is its displayed total divided by the number
\* of days of the window that total was summed over, and zero over no days.
C5_AveragesMatchTotals ==
  pc = "done" =>
     /\ IsAverage(kpi.avg_daily_cg, cg_sel, day_range[2] - day_range[1] + 1)
     /\ IsAverage(kpi.avg_daily_lg, lg_sel, day_range[2])

\* C6: each total KPI is the sum of exactly the dispatch quantities whose day
\* lies in the selected range [a, b].
C6_TotalsOverSelectedRange ==
  FilterDone =>
     /\ cg_sel = RawCg(day_range[1], day_range[2])
     /\ lg_sel = RawLg(day_range[1], day_range[2])

\* the snapshots of a shop on or before a day
Known(fps_id, day) ==
  {r \in stock_levels :
     r.Entity_Type = "FPS" /\ r.Entity_ID = fps_id /\ r.Day <= day}

Latest(rows) == CHOOSE r \in rows : \A q \in rows : q.Day <= r.Day

\* C7: a shop's current stock is the level of its latest snapshot on or
\* before the reference day, and zero only when it has none.
C7_CurrentStockCarriedForward ==
  ProjectionDone =>
     \A f \in DOMAIN fps :
        IF Known(f, end_day) = {}
          THEN fps_data[f].Current_Stock_tons = 0
          ELSE fps_data[f].Current_Stock_tons =
                 Latest(Known(f, end_day)).Stock_Level_tons

\* C8: the next receipt day is the least dispatch day of the shop after the
\* reference day, absent exactly when there is none; the gap is present
\* exactly when it is, and is next receipt day minus reference day, > 0.
C8_NextReceipt ==
  ProjectionDone =>
     \A f \in DOMAIN fps :
        LET after == {dispatch_lg[i].Day :
                        i \in {j \in DOMAIN dispatch_lg :
                                 dispatch_lg[j].FPS_ID = f /\ dispatch_lg[j].Day > end_day}}
            row == fps_data[f]
        IN  /\ after = {} => row.Next_Receipt_Day = {}
            /\ after # {} =>
                 /\ row.Next_Receipt_Day \subseteq after
                 /\ Cardinality(row.Next_Receipt_Day) = 1
                 /\ \A n \in row.Next_Receipt_Day : \A m \in after : n <= m
            /\ (row.Days_To_Receipt = {}) <=> (row.Next_Receipt_Day = {})
            /\ \A n \in row.Next_Receipt_Day :
                 row.Days_To_Receipt = {n - end_day} /\ n - end_day > 0

\* the snapshots of an LG on or before a day
KnownLg(lg, day) ==
  {r \in stock_levels :
     r.Entity_Type = "LG" /\ r.Entity_ID = lg /\ r.Day <= day}

\* C9: every cell of the LG timeline holds the level of that LG's latest
\* snapshot on or before its day, and is missing when there is none (no later
\* value, no zero filled in); filling the timeline again changes nothing.
C9_ForwardFill ==
  ViewsDone =>
     /\ \A d \in DOMAIN lg_stock : \A c \in DOMAIN lg_stock[d] :
          IF KnownLg(c, d) = {}
            THEN lg_stock[d][c] = {}
            ELSE lg_stock[d][c] = {Latest(KnownLg(c, d)).Stock_Level_tons}
     /\ Ffill(lg_stock) = lg_stock

C9_Witness ==
  /\ ViewsDone
  /\ \E d \in DOMAIN lg_stock : \E c \in DOMAIN lg_stock[d] :
       /\ KnownLg(c, d) # {} /\ KnownLg(c, d) = KnownLg(c, d - 1)
       /\ lg_stock[d][c] # {} /\ lg_stock[d][c] # {0}
       /\ \E r \in stock_levels :
            /\ r.Entity_Type = "LG" /\ r.Entity_ID = c /\ r.Day > d
            /\ {r.Stock_Level_tons} # lg_stock[d][c]
  /\ \E d \in DOMAIN lg_stock : \E e \in DOMAIN lg_stock[d] :
       KnownLg(e, d) = {} /\ KnownLg(e, MaxDays) # {} /\ lg_stock[d][e] = {}

\* C10: a merged FPS snapshot is at risk exactly when its stock level is <=
\* its shop's threshold; so after a flagged snapshot of a shop, every later
\* snapshot of it is flagged unless its stock is strictly above the threshold.
C10_AtRisk ==
  ViewsDone =>
     /\ \A r \in fps_stock :
          /\ r.At_Risk <=> r.Stock_Level_tons <= r.Reorder_Threshold_tons
          /\ r.Reorder_Threshold_tons = fps[r.FPS_ID]
     /\ \A s \in stock_levels :
          (s.Entity_Type = "FPS" /\ s.Entity_ID \in DOMAIN fps) =>
             \E r \in fps_stock :
                /\ r.FPS_ID = s.Entity_ID /\ r.Day = s.Day
                /\ r.Stock_Level_tons = s.Stock_Level_tons
     /\ \A r, q \in fps_stock :
          (r.FPS_ID = q.FPS_ID /\ r.Day < q.Day /\ r.At_Risk /\ ~q.At_Risk) =>
             q.Stock_Level_tons > q.Reorder_Threshold_tons

C10_Witness ==
  /\ ViewsDone
  /\ \E r, q \in fps_stock :
       /\ r.FPS_ID = q.FPS_ID /\ r.Day < q.Day
       /\ r.Stock_Level_tons = r.Reorder_Threshold_tons /\ r.At_Risk
       /\ ~q.At_Risk

====
